---- MODULE Spec2Model ----
(***************************************************************************)
(* arris-scrape: the fetcher (session token, mutex, login handshake), the  *)
(* table extractor and record parser, and the metrics writer of            *)
(* arris-scrape.go.                                                        *)
(*                                                                         *)
(* A Go string is a sequence of one-character strings, so that splitting,  *)
(* numeric conversion and quoting are computed and not assumed.  The       *)
(* session token is an opaque string and is kept as a TLA+ string.         *)
(***************************************************************************)
EXTENDS Integers, Sequences, FiniteSets, TLC

(***************************************************************************)
(* Bounds of the model.                                                    *)
(***************************************************************************)
\* overlapping /metrics handler invocations in server mode
NumReq == 2
\* data rows per table of a generated status page
MaxRows == 2

(***************************************************************************)
(* html.Node: an owned tree; a node pointer is the path of child indexes   *)
(* from the document node.                                                 *)
(***************************************************************************)
Nil == <<0>>

Root == <<>>

Text(d) == [Type |-> "TextNode", Data |-> d, Attr |-> <<>>, kids |-> <<>>]

El(tag, attr, kids) == [Type |-> "ElementNode", Data |-> tag, Attr |-> attr, kids |-> kids]

Doc(kids) == [Type |-> "DocumentNode", Data |-> <<>>, Attr |-> <<>>, kids |-> kids]

RECURSIVE NodeAt(_, _)
NodeAt(tree, p) ==
    IF p = <<>> THEN tree ELSE NodeAt(tree.kids[Head(p)], Tail(p))

\* node.Parent; every text node of a parsed document lies under html and
\* body, so three Parent steps from a text node never leave the tree
Parent(p) == IF p = <<>> \/ p = Nil THEN Nil ELSE SubSeq(p, 1, Len(p) - 1)

FirstChild(tree, p) ==
    IF Len(NodeAt(tree, p).kids) > 0 THEN Append(p, 1) ELSE Nil

NextSibling(tree, p) ==
    IF p = <<>> THEN Nil
    ELSE IF p[Len(p)] < Len(NodeAt(tree, Parent(p)).kids)
         THEN Append(Parent(p), p[Len(p)] + 1)
         ELSE Nil

(***************************************************************************)
(* findTextNode: depth first, the node, then its children, then its        *)
(* following siblings; the first text node whose Data equals text.         *)
(***************************************************************************)
HasPrefix(s, prefix) ==
    Len(s) >= Len(prefix) /\ SubSeq(s, 1, Len(prefix)) = prefix

TextMatchesPrefix(n, text) == n.Type = "TextNode" /\ HasPrefix(n.Data, text)

\* node.Type == html.TextNode && node.Data == text
TextMatches(n, text) == n.Type = "TextNode" /\ n.Data = text

RECURSIVE findTextNode(_, _, _)
findTextNode(tree, node, text) ==
    IF node = Nil THEN Nil
    ELSE IF TextMatches(NodeAt(tree, node), text)
         THEN node
         ELSE LET n == findTextNode(tree, FirstChild(tree, node), text)
              IN  IF n # Nil THEN n
                  ELSE findTextNode(tree, NextSibling(tree, node), text)

(***************************************************************************)
(* Strings of the program.                                                 *)
(***************************************************************************)
sLogin == <<"L", "o", "g", "i", "n">>

sBonded == <<" ", "B", "o", "n", "d", "e", "d", " ", "C", "h", "a", "n", "n", "e", "l", "s">>

sDownstream == <<"D", "o", "w", "n", "s", "t", "r", "e", "a", "m">> \o sBonded

sUpstream == <<"U", "p", "s", "t", "r", "e", "a", "m">> \o sBonded

sTd == <<"t", "d">>

sAlign == <<"a", "l", "i", "g", "n">>

sLeft == <<"l", "e", "f", "t">>

(***************************************************************************)
(* scrapeTable: rowPtr and its following siblings; a row is taken when it  *)
(* has exactly one attribute, align="left"; its values are the Data of the *)
(* first child of every child whose Data is "td".                          *)
(***************************************************************************)
RowQualifiesMissingLen(n) ==
    Len(n.Attr) >= 1 /\ n.Attr[1].Key = sAlign /\ n.Attr[1].Val = sLeft

RowQualifies(n) ==
    Len(n.Attr) = 1 /\ n.Attr[1].Key = sAlign /\ n.Attr[1].Val = sLeft

\* the outer loop: rowPtr, rowPtr.NextSibling, ... until nil; the nodes a row
\* is appended for, in order
RECURSIVE rowsFrom(_, _)
rowsFrom(tree, rowPtr) ==
    IF rowPtr = Nil THEN <<>>
    ELSE (IF RowQualifies(NodeAt(tree, rowPtr)) THEN <<rowPtr>> ELSE <<>>)
         \o rowsFrom(tree, NextSibling(tree, rowPtr))

scrapeRowsOfChildren(tree, rowPtr) == rowsFrom(tree, FirstChild(tree, rowPtr))

\* the nodes scrapeTable(rowPtr) takes its rows from
scrapeRows(tree, rowPtr) == rowsFrom(tree, rowPtr)

\* the inner loop: [panic, vals]; columnPtr.FirstChild.Data of a td without
\* children dereferences nil
RECURSIVE columnVals(_, _)
columnVals(tree, columnPtr) ==
    IF columnPtr = Nil THEN [panic |-> FALSE, vals |-> <<>>]
    ELSE IF NodeAt(tree, columnPtr).Data = sTd
         THEN IF FirstChild(tree, columnPtr) = Nil
              THEN [panic |-> TRUE, vals |-> <<>>]
              ELSE LET rest == columnVals(tree, NextSibling(tree, columnPtr))
                   IN  [panic |-> rest.panic,
                        vals  |-> <<NodeAt(tree, FirstChild(tree, columnPtr)).Data>> \o rest.vals]
         ELSE columnVals(tree, NextSibling(tree, columnPtr))

\* [panic, rows]: the [][]string scraped
scrapeTable(tree, rowPtr) ==
    LET nodes == scrapeRows(tree, rowPtr)
        cols  == [i \in 1..Len(nodes) |-> columnVals(tree, FirstChild(tree, nodes[i]))]
    IN  [panic |-> \E i \in 1..Len(nodes) : cols[i].panic,
         rows  |-> [i \in 1..Len(nodes) |-> cols[i].vals]]

(***************************************************************************)
(* strings.Split(s, " ")[0], strconv.ParseInt(s, 10, 64), strconv.Atoi and *)
(* strconv.ParseFloat(s, 64) on the characters that occur in cells: signs, *)
(* digits, the point, the space and letters of units.  Cells are short, so *)
(* no value leaves the range of int64 or the precision of float64.  A      *)
(* float is the exact decimal [m, e] = m / 10^e with no trailing zero.     *)
(***************************************************************************)
Digits == <<"0", "1", "2", "3", "4", "5", "6", "7", "8", "9">>

IsDigit(c) == \E i \in 1..10 : Digits[i] = c

DigitVal(c) == (CHOOSE i \in 1..10 : Digits[i] = c) - 1

RECURSIVE SplitFirst(_)
SplitFirst(s) ==
    IF s = <<>> \/ Head(s) = " " THEN <<>> ELSE <<Head(s)>> \o SplitFirst(Tail(s))

RECURSIVE DecVal(_)
DecVal(ds) ==
    IF ds = <<>> THEN 0
    ELSE DecVal(SubSeq(ds, 1, Len(ds) - 1)) * 10 + DigitVal(ds[Len(ds)])

AllDigits(s) == \A i \in 1..Len(s) : IsDigit(s[i])

Unsigned(s) == IF s # <<>> /\ Head(s) \in {"+", "-"} THEN Tail(s) ELSE s

Sign(s) == IF s # <<>> /\ Head(s) = "-" THEN -1 ELSE 1

ParseInt(s) ==
    LET u == Unsigned(s)
    IN  IF u # <<>> /\ AllDigits(u)
        THEN [err |-> FALSE, val |-> Sign(s) * DecVal(u)]
        ELSE [err |-> TRUE, val |-> 0]

Atoi(s) == ParseInt(s)

RECURSIVE Normal(_)
Normal(f) ==
    IF f.e > 0 /\ f.m % 10 = 0 THEN Normal([m |-> f.m \div 10, e |-> f.e - 1]) ELSE f

ParseFloat(s) ==
    LET u    == Unsigned(s)
        dots == {i \in 1..Len(u) : u[i] = "."}
        ds   == SelectSeq(u, IsDigit)
    IN  IF /\ Cardinality(dots) <= 1
           /\ ds # <<>>
           /\ Len(ds) + Cardinality(dots) = Len(u)
        THEN [err |-> FALSE,
              val |-> Normal([m |-> Sign(s) * DecVal(ds),
                              e |-> IF dots = {} THEN 0
                                    ELSE Len(u) - (CHOOSE i \in dots : TRUE)])]
        ELSE [err |-> TRUE, val |-> [m |-> 0, e |-> 0]]

(***************************************************************************)
(* parseDownstream and parseUpstream.  A result is [kind, data] with kind  *)
(* "ok", "notfound" (the heading is absent), "format" (a conversion error  *)
(* is returned) or "panic" (an index out of range or a nil dereference,    *)
(* which returns nothing to the caller).  The cells of a row are read and  *)
(* converted in the order of the code, which returns at the first failure. *)
(***************************************************************************)
\* row[c] converted by strconv.ParseInt(strings.Split(row[c], " ")[0], 10, 64)
IntCell(row, c) ==
    IF c >= Len(row) THEN [kind |-> "panic", val |-> 0]
    ELSE LET r == ParseInt(SplitFirst(row[c + 1]))
         IN  [kind |-> IF r.err THEN "format" ELSE "ok", val |-> r.val]

\* row[c] converted by strconv.ParseFloat(strings.Split(row[c], " ")[0], 64)
FloatCell(row, c) ==
    IF c >= Len(row) THEN [kind |-> "panic", val |-> [m |-> 0, e |-> 0]]
    ELSE LET r == ParseFloat(SplitFirst(row[c + 1]))
         IN  [kind |-> IF r.err THEN "format" ELSE "ok", val |-> r.val]

\* row[c] converted by strconv.Atoi(row[c])
AtoiCell(row, c) ==
    IF c >= Len(row) THEN [kind |-> "panic", val |-> 0]
    ELSE LET r == Atoi(row[c + 1])
         IN  [kind |-> IF r.err THEN "format" ELSE "ok", val |-> r.val]

NoRec == [kind |-> "none"]

\* the body of the loop of parseDownstream for one row
downstreamRow(row) ==
    LET f == IntCell(row, 3)
        p == FloatCell(row, 4)
        s == FloatCell(row, 5)
        c == AtoiCell(row, 6)
        u == AtoiCell(row, 7)
    IN  IF f.kind # "ok" THEN [kind |-> f.kind, rec |-> NoRec]
        ELSE IF p.kind # "ok" THEN [kind |-> p.kind, rec |-> NoRec]
        ELSE IF s.kind # "ok" THEN [kind |-> s.kind, rec |-> NoRec]
        ELSE IF c.kind # "ok" THEN [kind |-> c.kind, rec |-> NoRec]
        ELSE IF u.kind # "ok" THEN [kind |-> u.kind, rec |-> NoRec]
        ELSE [kind |-> "ok",
              rec  |-> [ChannelID |-> row[1], LockStatus |-> row[2],
                        Modulation |-> row[3], FrequencyHz |-> f.val,
                        PowerdBmV |-> p.val, SNRMERdB |-> s.val,
                        Corrected |-> c.val, Uncorrectables |-> u.val]]

\* the body of the loop of parseUpstream for one row
upstreamRow(row) ==
    LET f == IntCell(row, 4)
        w == IntCell(row, 5)
        p == FloatCell(row, 6)
    IN  IF f.kind # "ok" THEN [kind |-> f.kind, rec |-> NoRec]
        ELSE IF w.kind # "ok" THEN [kind |-> w.kind, rec |-> NoRec]
        ELSE IF p.kind # "ok" THEN [kind |-> p.kind, rec |-> NoRec]
        ELSE [kind |-> "ok",
              rec  |-> [Channel |-> row[1], ChannelID |-> row[2],
                        LockStatus |-> row[3], ChannelType |-> row[4],
                        FrequencyHz |-> f.val, WidthHz |-> w.val,
                        PowerdBmV |-> p.val]]

RECURSIVE downstreamLoop(_, _, _)
downstreamLoop(rows, i, data) ==
    IF i > Len(rows) THEN [kind |-> "ok", data |-> data]
    ELSE LET r == downstreamRow(rows[i])
         IN  IF r.kind = "ok"
             THEN downstreamLoop(rows, i + 1, Append(data, r.rec))
             ELSE [kind |-> r.kind, data |-> <<>>]

RECURSIVE upstreamLoopPartial(_, _, _)
upstreamLoopPartial(rows, i, data) ==
    IF i > Len(rows) THEN [kind |-> "ok", data |-> data]
    ELSE LET r == upstreamRow(rows[i])
         IN  IF r.kind = "ok"
             THEN upstreamLoopPartial(rows, i + 1, Append(data, r.rec))
             ELSE [kind |-> "ok", data |-> data]

RECURSIVE upstreamLoop(_, _, _)
upstreamLoop(rows, i, data) ==
    IF i > Len(rows) THEN [kind |-> "ok", data |-> data]
    ELSE LET r == upstreamRow(rows[i])
         IN  IF r.kind = "ok"
             THEN upstreamLoop(rows, i + 1, Append(data, r.rec))
             ELSE [kind |-> r.kind, data |-> <<>>]

\* tableTitle.Parent.Parent.Parent
TableOf(tableTitle) == Parent(Parent(Parent(tableTitle)))

parseDownstream(doc) ==
    LET tableTitle == findTextNode(doc, Root, sDownstream)
    IN  IF tableTitle = Nil THEN [kind |-> "notfound", data |-> <<>>]
        ELSE LET t == scrapeTable(doc, TableOf(tableTitle))
             IN  IF t.panic THEN [kind |-> "panic", data |-> <<>>]
                 ELSE downstreamLoop(t.rows, 1, <<>>)

parseUpstream(doc) ==
    LET tableTitle == findTextNode(doc, Root, sUpstream)
    IN  IF tableTitle = Nil THEN [kind |-> "notfound", data |-> <<>>]
        ELSE LET t == scrapeTable(doc, TableOf(tableTitle))
             IN  IF t.panic THEN [kind |-> "panic", data |-> <<>>]
                 ELSE upstreamLoop(t.rows, 1, <<>>)

(***************************************************************************)
(* The lines fmt.Fprintf writes: the metric name of the format string, the *)
(* label written by %q and the value written by %v.  %v writes an integer  *)
(* in decimal and a float64 in the shortest %g form, which for a magnitude *)
(* in [0.0001, 1000000), the range of every power and SNR cell, is plain   *)
(* decimal notation.                                                       *)
(***************************************************************************)
RECURSIVE NatChars(_)
NatChars(n) ==
    IF n < 10 THEN <<Digits[n + 1]>> ELSE NatChars(n \div 10) \o <<Digits[(n % 10) + 1]>>

Abs(n) == IF n < 0 THEN -n ELSE n

FormatInt(n) == (IF n < 0 THEN <<"-">> ELSE <<>>) \o NatChars(Abs(n))

RECURSIVE Pow10(_)
Pow10(e) == IF e = 0 THEN 1 ELSE 10 * Pow10(e - 1)

RECURSIVE FracChars(_, _)
FracChars(n, e) ==
    IF e = 0 THEN <<>> ELSE FracChars(n \div 10, e - 1) \o <<Digits[(n % 10) + 1]>>

FormatFloat(f) ==
    (IF f.m < 0 THEN <<"-">> ELSE <<>>)
    \o NatChars(Abs(f.m) \div Pow10(f.e))
    \o (IF f.e = 0 THEN <<>> ELSE <<".">> \o FracChars(Abs(f.m) % Pow10(f.e), f.e))

RECURSIVE Escape(_)
Escape(s) ==
    IF s = <<>> THEN <<>>
    ELSE (IF Head(s) \in {"\"", "\\"} THEN <<"\\", Head(s)>> ELSE <<Head(s)>>)
         \o Escape(Tail(s))

\* %q
Quote(s) == <<"\"">> \o Escape(s) \o <<"\"">>

Line(name, id, value) == [name |-> name, channel_id |-> Quote(id), value |-> value]

downstreamLinesSwapped(d) ==
    << Line("downstream_bonded_channels_power_dbmv", d.ChannelID, FormatFloat(d.PowerdBmV)),
       Line("downstream_bonded_channels_frequency_hz", d.ChannelID, FormatInt(d.FrequencyHz)),
       Line("downstream_bonded_channels_snr_mer_db", d.ChannelID, FormatFloat(d.SNRMERdB)),
       Line("downstream_bonded_channels_corrected", d.ChannelID, FormatInt(d.Corrected)),
       Line("downstream_bonded_channels_uncorrectables", d.ChannelID, FormatInt(d.Uncorrectables)) >>

\* the five Fprintf calls for one downstream record
downstreamLines(d) ==
    << Line("downstream_bonded_channels_frequency_hz", d.ChannelID, FormatInt(d.FrequencyHz)),
       Line("downstream_bonded_channels_power_dbmv", d.ChannelID, FormatFloat(d.PowerdBmV)),
       Line("downstream_bonded_channels_snr_mer_db", d.ChannelID, FormatFloat(d.SNRMERdB)),
       Line("downstream_bonded_channels_corrected", d.ChannelID, FormatInt(d.Corrected)),
       Line("downstream_bonded_channels_uncorrectables", d.ChannelID, FormatInt(d.Uncorrectables)) >>

\* the three Fprintf calls for one upstream record
upstreamLines(u) ==
    << Line("upstream_bonded_channels_frequency_hz", u.ChannelID, FormatInt(u.FrequencyHz)),
       Line("upstream_bonded_channels_width_hz", u.ChannelID, FormatInt(u.WidthHz)),
       Line("upstream_bonded_channels_power_dbmv", u.ChannelID, FormatFloat(u.PowerdBmV)) >>

RECURSIVE writeDownstream(_)
writeDownstream(data) ==
    IF data = <<>> THEN <<>> ELSE downstreamLines(Head(data)) \o writeDownstream(Tail(data))

RECURSIVE writeUpstream(_)
writeUpstream(data) ==
    IF data = <<>> THEN <<>> ELSE upstreamLines(Head(data)) \o writeUpstream(Tail(data))

(***************************************************************************)
(* The status pages the device serves, as html.Parse returns them: a       *)
(* document with html, head and body.  A page is described by              *)
(* [login, layout, dh, down, uh, up]: whether it shows the login form, the *)
(* nesting of the tables, the two heading texts and the kinds of the rows  *)
(* that follow each heading.  Tree builds the parsed document.             *)
(***************************************************************************)
Ch(tag) == El(tag, <<>>, <<>>)

AlignLeft == [Key |-> sAlign, Val |-> sLeft]

AlignRight == [Key |-> sAlign, Val |-> <<"r", "i", "g", "h", "t">>]

ClassX == [Key |-> <<"c", "l", "a", "s", "s">>, Val |-> <<"x">>]

DownKinds ==
    {"good", "bare", "header", "right", "two", "space", "badfreq", "badcorr",
     "short", "long", "emptytd"}

UpKinds == {"good", "header", "badwidth", "short"}

HeadKinds == {"exact", "absent", "decorated"}

Layouts == {"device", "nested"}

RowAttr(kind) ==
    CASE kind \in {"header", "space"} -> <<>>
      [] kind = "right" -> <<AlignRight>>
      [] kind = "two" -> <<AlignLeft, ClassX>>
      [] OTHER -> <<AlignLeft>>

sHz == <<" ", "H", "z">>

sdBmV == <<" ", "d", "B", "m", "V">>

sdB == <<" ", "d", "B">>

\* the cell texts of the i-th row after the downstream heading
DownCells(kind, i) ==
    LET id == NatChars(i)
        base == << id, <<"L">>, <<"Q">>, <<"5", "4", FormatInt(i)[1]>> \o sHz,
                   <<"-", "2", ".", "3">> \o sdBmV, <<"3", "9", ".", "5">> \o sdB,
                   <<"1", "2">>, <<"0">> >>
    IN  CASE kind = "bare" ->
               << <<"a", "\"">> \o id, <<"L">>, <<"Q">>, <<"5", "5">>, <<"4">>,
                  <<"4", "0", ".", "0">>, <<"+", "7">>, <<"3">> >>
          [] kind = "badfreq" -> [base EXCEPT ![4] = <<"x", "4", "3">> \o sHz]
          [] kind = "badcorr" -> [base EXCEPT ![7] = <<"1", " ", "2">>]
          [] kind = "short" -> SubSeq(base, 1, 7)
          [] kind = "long" -> Append(base, <<"9">>)
          [] OTHER -> base

\* the cell texts of the i-th row after the upstream heading
UpCells(kind, i) ==
    LET id == NatChars(i)
        base == << <<"c">> \o id, id, <<"L">>, <<"S">>, <<"3", "6">> \o sHz,
                   <<"6", "4">> \o sHz, <<"4", "5", ".", "0", "5">> \o sdBmV >>
    IN  CASE kind = "badwidth" -> [base EXCEPT ![6] = <<"H", "z">>]
          [] kind = "short" -> SubSeq(base, 1, 6)
          [] OTHER -> base

Td(text) == El(sTd, <<>>, <<Text(text)>>)

RowNode(kind, cells) ==
    IF kind = "space" THEN Text(<<" ">>)
    ELSE El(<<"t", "r">>, RowAttr(kind),
            [j \in 1..Len(cells) |->
                IF kind = "emptytd" /\ j = 2 THEN Ch(sTd) ELSE Td(cells[j])])

HeadingText(h, exact) ==
    CASE h = "exact" -> exact
      [] h = "decorated" -> exact \o <<":">>
      [] OTHER -> <<"S", "t", "a", "t", "u", "s">>

\* the row that holds the heading: on the device the text is wrapped in
\* strong inside th; in the nested layout it is the text of the cell
HeadingRow(layout, text) ==
    El(<<"t", "r">>, <<>>,
       << El(<<"t", "h">>, <<>>,
             << IF layout = "device"
                THEN El(<<"s", "t", "r", "o", "n", "g">>, <<>>, <<Text(text)>>)
                ELSE Text(text) >>) >>)

\* html.Parse puts the rows of a table under tbody; the nested layout has
\* them directly under the element three levels above the heading text
Table(layout, text, rows) ==
    IF layout = "device"
    THEN El(<<"t", "a", "b", "l", "e">>, <<>>,
            << El(<<"t", "b", "o", "d", "y">>, <<>>, <<HeadingRow(layout, text)>> \o rows) >>)
    ELSE El(<<"t", "a", "b", "l", "e">>, <<>>, <<HeadingRow(layout, text)>> \o rows)

Tree(d) ==
    Doc(<< El(<<"h", "t", "m", "l">>, <<>>,
              << Ch(<<"h", "e", "a", "d">>),
                 El(<<"b", "o", "d", "y">>, <<>>,
                    (IF d.login THEN <<El(<<"h", "2">>, <<>>, <<Text(sLogin)>>)>> ELSE <<>>)
                    \o << Table(d.layout, HeadingText(d.dh, sDownstream),
                                [i \in 1..Len(d.down) |->
                                    RowNode(d.down[i], DownCells(d.down[i], i))]),
                          Table(d.layout, HeadingText(d.uh, sUpstream),
                                [i \in 1..Len(d.up) |->
                                    RowNode(d.up[i], UpCells(d.up[i], i))]) >>) >>) >>)

SeqsUpTo(S, n) == UNION {[1..k -> S] : k \in 0..n}

PageOf(login, layout, dh, down, uh, up) ==
    [login |-> login, layout |-> layout, dh |-> dh, down |-> down, uh |-> uh, up |-> up]

GoodPage == PageOf(FALSE, "device", "exact", <<"good">>, "exact", <<"good">>)

LoginPage == PageOf(TRUE, "device", "absent", <<>>, "absent", <<>>)

\* the pages a one-shot run may be served
AllPages ==
    {PageOf(FALSE, "device", "exact", dn, "exact", <<"good">>) : dn \in SeqsUpTo(DownKinds, MaxRows)}
    \cup {PageOf(FALSE, "device", "exact", <<"good">>, "exact", u) : u \in SeqsUpTo(UpKinds, MaxRows)}
    \cup {PageOf(FALSE, "device", dh, <<"good">>, uh, <<"good">>) : dh \in HeadKinds, uh \in HeadKinds}
    \cup {PageOf(FALSE, "nested", "exact", dn, "exact", <<"good">>) : dn \in SeqsUpTo({"good", "header"}, MaxRows)}
    \cup {LoginPage, [GoodPage EXCEPT !.login = TRUE]}

\* the pages a server run may be served
FewPages == {GoodPage, LoginPage}

Pages == AllPages \cup FewPages

\* f as a table: its values are computed once, not at every application
Tabulated(f) == f @@ <<>>

\* the results of html.Parse and of the pure functions of the program on
\* each page
TreeOf == Tabulated([p \in Pages |-> Tree(p)])

LoginOf == Tabulated([p \in Pages |-> findTextNode(TreeOf[p], Root, sLogin)])

\* the nodes scrapeTable takes rows from for the table under heading text
ScrapedUnder(tree, text) ==
    LET tableTitle == findTextNode(tree, Root, text)
    IN  IF tableTitle = Nil THEN <<>> ELSE scrapeRows(tree, TableOf(tableTitle))

ScrapedDownOf == Tabulated([p \in Pages |-> ScrapedUnder(TreeOf[p], sDownstream)])

ScrapedUpOf == Tabulated([p \in Pages |-> ScrapedUnder(TreeOf[p], sUpstream)])

DownstreamOf == Tabulated([p \in Pages |-> parseDownstream(TreeOf[p])])

UpstreamOf == Tabulated([p \in Pages |-> parseUpstream(TreeOf[p])])

DownstreamLinesOf == Tabulated([p \in Pages |-> writeDownstream(DownstreamOf[p].data)])

UpstreamLinesOf == Tabulated([p \in Pages |-> writeUpstream(UpstreamOf[p].data)])

(***************************************************************************)
(* The program: main runs writeMetrics once (one-shot mode) or on every    *)
(* /metrics request, the handlers overlapping (server mode).  All share    *)
(* one fetcher: its token and its mutex.  The modem is the environment.    *)
(***************************************************************************)
VARIABLES
    mode,        \* "oneshot" or "server": whether -http-addr is given
    token,       \* fetcher.token
    mu,          \* fetcher.mu: 0 unlocked, else the request holding it
    valid,       \* modem: the tokens it accepts
    accepted,    \* history: the modem has accepted a login
    hs,          \* history: logins accepted since the modem last expired a
                 \* token or rejected a login (counted up to 2)
    pc,          \* per request: its position in the handler
    page,        \* per request: the page fetchPage returned
    res,         \* per request: what writeMetrics returned
    out,         \* per request: the lines written to w
    downstream,  \* per request: the result of parseDownstream
    upstream,    \* per request: the result of parseUpstream
    scraped,     \* history: the nodes scrapeTable took rows from, by table
    startTok,    \* history: f.token when fetchPage took the lock
    log,         \* history: the requests this call of fetchPage has sent
    sawLogin     \* history: the first status page of this call showed Login

vars == <<mode, token, mu, valid, accepted, hs, pc, page, res, out,
          downstream, upstream, scraped, startTok, log, sawLogin>>

Reqs == 1..NumReq

Tokens == {"A", "B"}

NoPage == PageOf(FALSE, "none", "absent", <<>>, "absent", <<>>)

NoResult == [kind |-> "none", data |-> <<>>]

NoneScraped == [down |-> <<>>, up |-> <<>>]

\* the pages the modem serves in this run
Served == IF mode = "server" THEN FewPages ELSE AllPages

\* what client.Do and html.Parse give for cmconnectionstatus.html?ct_<tok>:
\* an error, or the status page when the modem accepts tok and its login
\* page when it does not
StatusResponses(tok) ==
    {[err |-> TRUE, page |-> NoPage]}
    \cup {[err |-> FALSE, page |-> p] : p \in {q \in Served : q.login = (tok \notin valid)}}

ShowsLogin(p) == LoginOf[p] # Nil

Min(a, b) == IF a < b THEN a ELSE b

Init ==
    /\ mode \in {"oneshot", "server"}
    /\ token = ""
    /\ mu = 0
    /\ valid = {}
    /\ accepted = FALSE
    /\ hs = 0
    /\ pc = [r \in Reqs |-> "idle"]
    /\ page = [r \in Reqs |-> NoPage]
    /\ res = [r \in Reqs |-> "none"]
    /\ out = [r \in Reqs |-> <<>>]
    /\ downstream = [r \in Reqs |-> NoResult]
    /\ upstream = [r \in Reqs |-> NoResult]
    /\ scraped = [r \in Reqs |-> NoneScraped]
    /\ startTok = [r \in Reqs |-> ""]
    /\ log = [r \in Reqs |-> <<>>]
    /\ sawLogin = [r \in Reqs |-> FALSE]

\* main calls writeMetrics: once in one-shot mode, per request in server mode
Start(r) ==
    /\ pc[r] = "idle"
    /\ mode = "server" \/ r = 1
    /\ pc' = [pc EXCEPT ![r] = "lock"]
    /\ UNCHANGED <<mode, token, mu, valid, accepted, hs, page, res, out,
                   downstream, upstream, scraped, startTok, log, sawLogin>>

CanLockAlways(r) == TRUE

\* f.mu.Lock() returns
CanLock(r) == mu = 0

HasTokenNever(tok) == FALSE

\* f.token != ""
HasToken(tok) == tok # ""

\* f.mu.Lock() and the test of the cached token
Lock(r) ==
    /\ pc[r] = "lock"
    /\ CanLock(r)
    /\ mu' = r
    /\ startTok' = [startTok EXCEPT ![r] = token]
    /\ pc' = [pc EXCEPT ![r] = IF HasToken(token) THEN "tryToken" ELSE "loginPage"]
    /\ UNCHANGED <<mode, token, valid, accepted, hs, page, res, out,
                   downstream, upstream, scraped, log, sawLogin>>

ReturnErrLocked(r) ==
    /\ mu' = mu
    /\ pc' = [pc EXCEPT ![r] = "done"]
    /\ res' = [res EXCEPT ![r] = "transport"]
    /\ page' = page

\* return nil, err: the deferred Unlock runs and writeMetrics returns err
ReturnErr(r) ==
    /\ mu' = 0
    /\ pc' = [pc EXCEPT ![r] = "done"]
    /\ res' = [res EXCEPT ![r] = "transport"]
    /\ page' = page

\* return page, nil: the deferred Unlock runs
ReturnPage(r, p) ==
    /\ mu' = 0
    /\ pc' = [pc EXCEPT ![r] = "fetched"]
    /\ page' = [page EXCEPT ![r] = p]
    /\ res' = res

\* fetchPageInner with the cached token
TryToken(r) ==
    /\ pc[r] = "tryToken"
    /\ \E resp \in StatusResponses(token) :
        /\ log' = [log EXCEPT ![r] = Append(@, "status")]
        /\ IF resp.err
           THEN ReturnErr(r) /\ sawLogin' = sawLogin
           ELSE IF ~ShowsLogin(resp.page)
                THEN ReturnPage(r, resp.page) /\ sawLogin' = sawLogin
                ELSE /\ pc' = [pc EXCEPT ![r] = "loginPage"]
                     /\ sawLogin' = [sawLogin EXCEPT ![r] = TRUE]
                     /\ UNCHANGED <<mu, page, res>>
    /\ UNCHANGED <<mode, token, valid, accepted, hs, out,
                   downstream, upstream, scraped, startTok>>

\* GET https://<addr>: the login page request
LoginPageReq(r) ==
    /\ pc[r] = "loginPage"
    /\ log' = [log EXCEPT ![r] = Append(@, "root")]
    /\ \E ok \in BOOLEAN :
        IF ok
        THEN /\ pc' = [pc EXCEPT ![r] = "auth"]
             /\ UNCHANGED <<mu, page, res>>
        ELSE ReturnErr(r)
    /\ UNCHANGED <<mode, token, valid, accepted, hs, out,
                   downstream, upstream, scraped, startTok, sawLogin>>

\* what the auth request gives: an error (of Do or of ReadAll), or a body:
\* a token when the modem accepts the credentials, and when it rejects them
\* whatever it answers, empty or not
AuthResponses ==
    {[kind |-> "error", body |-> ""]}
    \cup {[kind |-> "accept", body |-> t] : t \in Tokens}
    \cup {[kind |-> "reject", body |-> b] : b \in {"", "junk"}}

KeepToken(old, body) == old

\* f.token = string(token)
StoreToken(old, body) == body

\* GET cmconnectionstatus.html?login_<credentials> with basic auth
AuthReq(r) ==
    /\ pc[r] = "auth"
    /\ log' = [log EXCEPT ![r] = Append(@, "login")]
    /\ \E resp \in AuthResponses :
        IF resp.kind = "error"
        THEN ReturnErr(r) /\ UNCHANGED <<token, valid, accepted, hs>>
        ELSE /\ token' = StoreToken(token, resp.body)
             /\ pc' = [pc EXCEPT ![r] = "retry"]
             /\ valid' = IF resp.kind = "accept" THEN valid \cup {resp.body} ELSE valid
             /\ accepted' = (accepted \/ resp.kind = "accept")
             /\ hs' = IF resp.kind = "accept" THEN Min(hs + 1, 2) ELSE 0
             /\ UNCHANGED <<mu, page, res>>
    /\ UNCHANGED <<mode, out, downstream, upstream, scraped, startTok, sawLogin>>

RetryAgain(p) == IF ShowsLogin(p) THEN "loginPage" ELSE "fetched"

\* return f.fetchPageInner(ctx): whatever the page shows, it is returned
RetryNext(p) == "fetched"

\* fetchPageInner with the token just stored
Retry(r) ==
    /\ pc[r] = "retry"
    /\ \E resp \in StatusResponses(token) :
        /\ log' = [log EXCEPT ![r] = Append(@, "status")]
        /\ IF resp.err
           THEN ReturnErr(r)
           ELSE IF RetryNext(resp.page) = "fetched"
                THEN ReturnPage(r, resp.page)
                ELSE /\ pc' = [pc EXCEPT ![r] = RetryNext(resp.page)]
                     /\ UNCHANGED <<mu, page, res>>
    /\ UNCHANGED <<mode, token, valid, accepted, hs, out,
                   downstream, upstream, scraped, startTok, sawLogin>>

\* the modem drops a session: a token it issued is no longer accepted
Expire(t) ==
    /\ t \in valid
    /\ valid' = valid \ {t}
    /\ hs' = 0
    /\ UNCHANGED <<mode, token, mu, accepted, pc, page, res, out,
                   downstream, upstream, scraped, startTok, log, sawLogin>>

IsError(k) == k \in {"transport", "login", "notfound", "format"}

\* writeMetrics after fetchPage: the Login check, parseDownstream and the
\* first loop of Fprintf calls
WriteDownstream(r) ==
    /\ pc[r] = "fetched"
    /\ LET d == DownstreamOf[page[r]]
       IN  IF LoginOf[page[r]] # Nil
           THEN /\ res' = [res EXCEPT ![r] = "login"]
                /\ pc' = [pc EXCEPT ![r] = "done"]
                /\ UNCHANGED <<out, downstream, scraped>>
           ELSE /\ downstream' = [downstream EXCEPT ![r] = d]
                /\ scraped' = [scraped EXCEPT ![r].down = ScrapedDownOf[page[r]]]
                /\ IF d.kind = "ok"
                   THEN /\ out' = [out EXCEPT ![r] = @ \o DownstreamLinesOf[page[r]]]
                        /\ pc' = [pc EXCEPT ![r] = "upstream"]
                        /\ res' = res
                   ELSE /\ res' = [res EXCEPT ![r] = d.kind]
                        /\ pc' = [pc EXCEPT ![r] = "done"]
                        /\ out' = out
    /\ UNCHANGED <<mode, token, mu, valid, accepted, hs, page, upstream,
                   startTok, log, sawLogin>>

\* parseUpstream and the second loop of Fprintf calls
WriteUpstream(r) ==
    /\ pc[r] = "upstream"
    /\ LET u == UpstreamOf[page[r]]
       IN  /\ upstream' = [upstream EXCEPT ![r] = u]
           /\ scraped' = [scraped EXCEPT ![r].up = ScrapedUpOf[page[r]]]
           /\ pc' = [pc EXCEPT ![r] = "done"]
           /\ IF u.kind = "ok"
              THEN /\ out' = [out EXCEPT ![r] = @ \o UpstreamLinesOf[page[r]]]
                   /\ res' = [res EXCEPT ![r] = "ok"]
              ELSE /\ res' = [res EXCEPT ![r] = u.kind]
                   /\ out' = out
    /\ UNCHANGED <<mode, token, mu, valid, accepted, hs, page, downstream,
                   startTok, log, sawLogin>>

\* server mode: the handler logs and returns (net/http recovers a panic of
\* the handler); the next request starts afresh.  In one-shot mode the
\* process exits instead.
Finish(r) ==
    /\ pc[r] = "done"
    /\ mode = "server"
    /\ pc' = [pc EXCEPT ![r] = "idle"]
    /\ page' = [page EXCEPT ![r] = NoPage]
    /\ res' = [res EXCEPT ![r] = "none"]
    /\ out' = [out EXCEPT ![r] = <<>>]
    /\ downstream' = [downstream EXCEPT ![r] = NoResult]
    /\ upstream' = [upstream EXCEPT ![r] = NoResult]
    /\ scraped' = [scraped EXCEPT ![r] = NoneScraped]
    /\ startTok' = [startTok EXCEPT ![r] = ""]
    /\ log' = [log EXCEPT ![r] = <<>>]
    /\ sawLogin' = [sawLogin EXCEPT ![r] = FALSE]
    /\ UNCHANGED <<mode, token, mu, valid, accepted, hs>>

Next ==
    \/ \E r \in Reqs : Start(r)
    \/ \E r \in Reqs : Lock(r)
    \/ \E r \in Reqs : TryToken(r)
    \/ \E r \in Reqs : LoginPageReq(r)
    \/ \E r \in Reqs : AuthReq(r)
    \/ \E r \in Reqs : Retry(r)
    \/ \E r \in Reqs : WriteDownstream(r)
    \/ \E r \in Reqs : WriteUpstream(r)
    \/ \E r \in Reqs : Finish(r)
    \/ \E t \in Tokens : Expire(t)

Spec == Init /\ [][Next]_vars

\* Every device request returns, with a response or an error, and a handler
\* that can continue does; a goroutine blocked in f.mu.Lock() is not passed
\* over forever (sync.Mutex hands the lock to a waiter that has waited long:
\* its starvation mode).  Nothing is assumed of the arrival of requests or
\* of the modem expiring sessions.
Fairness ==
    \A r \in Reqs :
        /\ SF_vars(Lock(r))
        /\ WF_vars(TryToken(r))
        /\ WF_vars(LoginPageReq(r))
        /\ WF_vars(AuthReq(r))
        /\ WF_vars(Retry(r))
        /\ WF_vars(WriteDownstream(r))
        /\ WF_vars(WriteUpstream(r))

LiveSpec == Spec /\ Fairness

(***************************************************************************)
(* Properties.  They describe a page by its nodes directly (kids, Attr,    *)
(* Data), not through the functions of the program.                        *)
(***************************************************************************)
InFetch == {"tryToken", "loginPage", "auth", "retry"}

\* fetchPage has returned to writeMetrics
Returned(r) == pc[r] \in {"fetched", "upstream", "done"}

IsPrefix(a, b) == Len(a) <= Len(b) /\ a = SubSeq(b, 1, Len(a))

StaleLog == <<"status", "root", "login", "status">>

FreshLog == <<"root", "login", "status">>

\* the call of r started with a cached token and its first page showed Login
StaleCall(r) == startTok[r] # "" /\ sawLogin[r]

Range(q) == {q[i] : i \in 1..Len(q)}

\* C1 as stated: a call that starts with a cached token and first gets a
\* Login page sends exactly the root GET, the login GET and one more status
\* fetch, and a Login page on the retry makes writeMetrics fail with no output
C1_ExactlyOneRetry ==
    \A r \in Reqs :
        (Returned(r) /\ StaleCall(r)) =>
            /\ log[r] = StaleLog
            /\ (pc[r] = "done" /\ ShowsLogin(page[r])) =>
                   (IsError(res[r]) /\ out[r] = <<>>)

\* C1 amended: such a call never sends more than one handshake and one more
\* status fetch; it sends fewer only when a request fails, and then
\* writeMetrics returns that error and writes nothing; a Login page on the
\* retry makes writeMetrics fail with no output
C1_AtMostOneRetry ==
    \A r \in Reqs :
        StaleCall(r) =>
            /\ IsPrefix(log[r], StaleLog)
            /\ Returned(r) => (log[r] = StaleLog \/ res[r] = "transport")
            /\ res[r] = "transport" => (page[r] = NoPage /\ out[r] = <<>>)
            /\ (pc[r] = "done" /\ page[r] # NoPage /\ ShowsLogin(page[r])) =>
                   (res[r] = "login" /\ out[r] = <<>>)

C1_Witness ==
    \E r \in Reqs :
        /\ pc[r] = "done" /\ StaleCall(r) /\ log[r] = StaleLog
        /\ page[r] # NoPage /\ ShowsLogin(page[r]) /\ res[r] = "login"

\* C2: at most one request is inside fetchPage, and it holds the mutex
C2_OneInFetchPage ==
    /\ \A r1, r2 \in Reqs : (pc[r1] \in InFetch /\ pc[r2] \in InFetch) => r1 = r2
    /\ \A r \in Reqs : pc[r] \in InFetch => mu = r

\* one request between its login GET and its retry while another waits
C2_Witness ==
    \E r1, r2 \in Reqs :
        r1 # r2 /\ pc[r1] = "retry" /\ mu = r1 /\ pc[r2] = "lock"

C3_Inv ==
    /\ hs <= 1
    /\ hs = 1 =>
        /\ token \in valid
        /\ \A r \in Reqs : pc[r] \notin {"loginPage", "auth"}
        /\ \A r \in Reqs : pc[r] = "tryToken" => startTok[r] = token

C3_Step ==
    \A r \in Reqs :
        /\ (Len(log'[r]) > Len(log[r]) /\ log'[r][Len(log'[r])] \in {"root", "login"})
               => hs = 0
        /\ (hs = 1 /\ pc[r] = "tryToken" /\ pc'[r] # "tryToken") =>
               (pc'[r] \in {"fetched", "done"} /\ log'[r] = <<"status">>)

\* C3: while the modem accepts the credentials and expires no token, one
\* handshake takes place however many requests overlap: after it no request
\* sends a root GET or a login GET, and every request that takes the lock
\* afterwards fetches the status page with the stored token and returns
C3_OneHandshake == [](C3_Inv) /\ [][C3_Step]_vars

\* two calls, the token empty at the first: the second reuses the token the
\* first stored and sends the status fetch alone
C3_Witness ==
    \E r1, r2 \in Reqs :
        /\ r1 # r2 /\ hs = 1
        /\ Returned(r1) /\ page[r1] # NoPage /\ log[r1] = FreshLog
        /\ pc[r2] = "fetched" /\ log[r2] = <<"status">> /\ startTok[r2] = token

C4_Inv ==
    \A r \in Reqs :
        /\ (startTok[r] # "" /\ log[r] # <<>>) => log[r][1] = "status"
        /\ (pc[r] \in InFetch \cup {"fetched", "upstream", "done"} /\ startTok[r] = "")
               => IsPrefix(log[r], FreshLog)
        /\ (pc[r] = "fetched" /\ startTok[r] # "" /\ ~sawLogin[r]) =>
               (log[r] = <<"status">> /\ ~ShowsLogin(page[r]))

C4_Step ==
    \A r \in Reqs :
        (pc[r] = "tryToken" /\ pc'[r] = "fetched") =>
            (token' = token /\ log'[r] = <<"status">>)

\* C4: with a cached token the first request is the status fetch, and a page
\* without Login is returned after that single request with the token
\* unchanged; with no token the first request is the root GET
C4_FirstRequestByToken == [](C4_Inv) /\ [][C4_Step]_vars

C4_Witness ==
    \E r \in Reqs :
        /\ pc[r] = "fetched" /\ startTok[r] # "" /\ ~sawLogin[r]
        /\ log[r] = <<"status">> /\ token = startTok[r]

\* C5: the cached token is non-empty only if the modem has accepted a
\* handshake and the token is one it issued
C5_TokenOnlyAfterAccept == token # "" => accepted

(***************************************************************************)
(* A page described by its nodes.                                          *)
(***************************************************************************)
RECURSIVE PathsOf(_)
PathsOf(n) ==
    {<<>>} \cup UNION {{<<i>> \o p : p \in PathsOf(n.kids[i])} : i \in 1..Len(n.kids)}

\* document order of two nodes neither of which contains the other
RECURSIVE Before(_, _)
Before(a, b) ==
    IF a = <<>> THEN b # <<>>
    ELSE IF b = <<>> THEN FALSE
    ELSE Head(a) < Head(b) \/ (Head(a) = Head(b) /\ Before(Tail(a), Tail(b)))

TextNodes(t, text) ==
    {p \in PathsOf(t) : NodeAt(t, p).Type = "TextNode" /\ NodeAt(t, p).Data = text}

\* the first text node equal to text, in document order
Heading(t, text) ==
    CHOOSE h \in TextNodes(t, text) : \A g \in TextNodes(t, text) \ {h} : Before(h, g)

ThreeUp(h) == SubSeq(h, 1, Len(h) - 3)

IsChildOf(q, e) == Len(q) = Len(e) + 1 /\ SubSeq(q, 1, Len(e)) = e

\* q is e or a following sibling of e
IsSiblingFrom(q, e) ==
    /\ e # <<>> /\ Len(q) = Len(e)
    /\ SubSeq(q, 1, Len(e) - 1) = SubSeq(e, 1, Len(e) - 1)
    /\ q[Len(q)] >= e[Len(e)]

Qualifies(n) == Len(n.Attr) = 1 /\ n.Attr[1] = [Key |-> sAlign, Val |-> sLeft]

\* the nodes of S, which have one parent, in document order
InOrder(S) ==
    CHOOSE q \in [1..Cardinality(S) -> S] :
        \A i, j \in 1..Cardinality(S) : i < j => q[i][Len(q[i])] < q[j][Len(q[j])]

\* the rows of the table that holds heading h on the device: the tr
\* elements beside the row of the heading
TableRows(t, h) ==
    {q \in PathsOf(t) :
        /\ Len(q) = Len(h) - 3
        /\ SubSeq(q, 1, Len(q) - 1) = SubSeq(h, 1, Len(q) - 1)
        /\ NodeAt(t, q).Data = <<"t", "r">>}

DataRows(t, h) == InOrder({q \in TableRows(t, h) : Qualifies(NodeAt(t, q))})

\* every child of the row is a td that holds one text
CellsAreTexts(n) ==
    \A j \in 1..Len(n.kids) :
        /\ n.kids[j].Data = sTd
        /\ Len(n.kids[j].kids) = 1
        /\ n.kids[j].kids[1].Type = "TextNode"

CellText(n, c) == n.kids[c + 1].kids[1].Data

\* the part of s before its first space
BeforeSpace(s) ==
    LET sp == {i \in 1..Len(s) : s[i] = " "}
    IN  IF sp = {} THEN s
        ELSE SubSeq(s, 1, (CHOOSE i \in sp : \A k \in sp : i <= k) - 1)

NoSign(s) == IF s # <<>> /\ s[1] \in {"+", "-"} THEN SubSeq(s, 2, Len(s)) ELSE s

IsIntText(s) == NoSign(s) # <<>> /\ \A i \in 1..Len(NoSign(s)) : IsDigit(NoSign(s)[i])

IsDecText(s) ==
    LET u == NoSign(s)
    IN  /\ \E i \in 1..Len(u) : IsDigit(u[i])
        /\ \A i \in 1..Len(u) : IsDigit(u[i]) \/ u[i] = "."
        /\ Cardinality({i \in 1..Len(u) : u[i] = "."}) <= 1

RECURSIVE Horner(_, _)
Horner(ds, acc) ==
    IF ds = <<>> THEN acc ELSE Horner(Tail(ds), 10 * acc + DigitVal(Head(ds)))

\* the number a decimal text denotes, as m / 10^e
NumberOf(s) ==
    LET u == NoSign(s)
        dot == {i \in 1..Len(u) : u[i] = "."}
    IN  [m |-> (IF s[1] = "-" THEN -1 ELSE 1) * Horner(SelectSeq(u, IsDigit), 0),
         e |-> IF dot = {} THEN 0 ELSE Len(u) - (CHOOSE i \in dot : TRUE)]

SameNumber(f, g) == f.m * Pow10(g.e) = g.m * Pow10(f.e)

IntIs(v, s) == SameNumber([m |-> v, e |-> 0], NumberOf(s))

\* a data row of the downstream table as section 6 of the specification
\* lays it out: eight cells, 3 to 5 a number and a unit, 6 and 7 a count
DownRowInSchema(n) ==
    /\ CellsAreTexts(n)
    /\ Len(n.kids) = 8
    /\ IsIntText(BeforeSpace(CellText(n, 3)))
    /\ IsDecText(BeforeSpace(CellText(n, 4)))
    /\ IsDecText(BeforeSpace(CellText(n, 5)))
    /\ IsIntText(CellText(n, 6))
    /\ IsIntText(CellText(n, 7))

UpRowInSchema(n) ==
    /\ CellsAreTexts(n)
    /\ Len(n.kids) = 7
    /\ IsIntText(BeforeSpace(CellText(n, 4)))
    /\ IsIntText(BeforeSpace(CellText(n, 5)))
    /\ IsDecText(BeforeSpace(CellText(n, 6)))

\* the page has the downstream table of the device and every data row of it
\* is in the schema
DownInSchema(t) ==
    /\ TextNodes(t, sDownstream) # {}
    /\ LET h == Heading(t, sDownstream)
       IN  /\ NodeAt(t, ThreeUp(h)).Data = <<"t", "r">>
           /\ \A q \in TableRows(t, h) :
                 Qualifies(NodeAt(t, q)) => DownRowInSchema(NodeAt(t, q))

\* record d is what the cells of row n say
DownRecordOf(d, n) ==
    /\ d.ChannelID = CellText(n, 0)
    /\ d.LockStatus = CellText(n, 1)
    /\ d.Modulation = CellText(n, 2)
    /\ IntIs(d.FrequencyHz, BeforeSpace(CellText(n, 3)))
    /\ SameNumber(d.PowerdBmV, NumberOf(BeforeSpace(CellText(n, 4))))
    /\ SameNumber(d.SNRMERdB, NumberOf(BeforeSpace(CellText(n, 5))))
    /\ IntIs(d.Corrected, BeforeSpace(CellText(n, 6)))
    /\ IntIs(d.Uncorrectables, BeforeSpace(CellText(n, 7)))

SchemaPages == {p \in Pages : DownInSchema(TreeOf[p])}

DataRowsOf ==
    Tabulated([p \in SchemaPages |-> DataRows(TreeOf[p], Heading(TreeOf[p], sDownstream))])

\* parseDownstream has run for request r
ParsedDown(r) == downstream[r] # NoResult

ParsedUp(r) == upstream[r] # NoResult

\* C6: on a page in the schema parseDownstream returns one record for every
\* row of the table whose only attribute is align="left", in document
\* order, none for any other row; the strings of a record are cells 0 to 2
\* and its numbers are what cells 3 to 7 say before their first space
C6_OneRecordPerDataRow ==
    \A r \in Reqs :
        (ParsedDown(r) /\ page[r] \in SchemaPages) =>
            LET t == TreeOf[page[r]]
                rows == DataRowsOf[page[r]]
                d == downstream[r]
            IN  /\ d.kind = "ok"
                /\ Len(d.data) = Len(rows)
                /\ \A i \in 1..Len(rows) : DownRecordOf(d.data[i], NodeAt(t, rows[i]))

\* a page in the schema with a data row and a row that has align="left"
\* and a second attribute
C6_Witness ==
    \E r \in Reqs :
        /\ ParsedDown(r) /\ page[r] \in SchemaPages
        /\ Len(downstream[r].data) = 1
        /\ LET t == TreeOf[page[r]]
           IN  \E q \in TableRows(t, Heading(t, sDownstream)) :
                  /\ Len(NodeAt(t, q).Attr) = 2
                  /\ NodeAt(t, q).Attr[1] = [Key |-> sAlign, Val |-> sLeft]
                  /\ Before(q, DataRowsOf[page[r]][1])

\* the pages whose downstream (upstream) table is the device's and has a
\* data row that is not in the schema
DownOffSchema ==
    {p \in Pages :
        LET t == TreeOf[p]
        IN  /\ TextNodes(t, sDownstream) # {}
            /\ NodeAt(t, ThreeUp(Heading(t, sDownstream))).Data = <<"t", "r">>
            /\ \E q \in TableRows(t, Heading(t, sDownstream)) :
                  Qualifies(NodeAt(t, q)) /\ ~DownRowInSchema(NodeAt(t, q))}

UpOffSchema ==
    {p \in Pages :
        LET t == TreeOf[p]
        IN  /\ TextNodes(t, sUpstream) # {}
            /\ NodeAt(t, ThreeUp(Heading(t, sUpstream))).Data = <<"t", "r">>
            /\ \E q \in TableRows(t, Heading(t, sUpstream)) :
                  Qualifies(NodeAt(t, q)) /\ ~UpRowInSchema(NodeAt(t, q))}

\* C7 as stated: a data row that is not in the schema, by a cell that does
\* not convert or by the number of its cells, makes parseDownstream
\* (parseUpstream) return an error and no records
C7_OffSchemaRowFailsTable ==
    \A r \in Reqs :
        /\ (ParsedDown(r) /\ page[r] \in DownOffSchema) =>
               (downstream[r].kind = "format" /\ downstream[r].data = <<>>)
        /\ (ParsedUp(r) /\ page[r] \in UpOffSchema) =>
               (upstream[r].kind = "format" /\ upstream[r].data = <<>>)

NoDownHeading == {p \in Pages : TextNodes(TreeOf[p], sDownstream) = {}}

NoUpHeading == {p \in Pages : TextNodes(TreeOf[p], sUpstream) = {}}

NotFound == [kind |-> "notfound", data |-> <<>>]

\* C8: on a page with no text node equal to "Downstream Bonded Channels"
\* parseDownstream returns the not-found error and no records, and so
\* parseUpstream for "Upstream Bonded Channels", whatever else the page holds
C8_MissingHeadingNotFound ==
    \A r \in Reqs :
        /\ (ParsedDown(r) /\ page[r] \in NoDownHeading) =>
               (downstream[r] = NotFound /\ res[r] = "notfound" /\ out[r] = <<>>)
        /\ (ParsedUp(r) /\ page[r] \in NoUpHeading) =>
               (upstream[r] = NotFound /\ res[r] = "notfound")

\* the downstream heading differs by a trailing character only and the
\* upstream table of the page is whole
C8_Witness ==
    \E r \in Reqs :
        /\ ParsedDown(r) /\ page[r] \in NoDownHeading
        /\ page[r] \notin NoUpHeading
        /\ TextNodes(TreeOf[page[r]], sDownstream \o <<":">>) # {}
        /\ downstream[r] = NotFound

DownNames ==
    << "downstream_bonded_channels_frequency_hz",
       "downstream_bonded_channels_power_dbmv",
       "downstream_bonded_channels_snr_mer_db",
       "downstream_bonded_channels_corrected",
       "downstream_bonded_channels_uncorrectables" >>

UpNames ==
    << "upstream_bonded_channels_frequency_hz",
       "upstream_bonded_channels_width_hz",
       "upstream_bonded_channels_power_dbmv" >>

\* s between double quotes, a quote or backslash of s after a backslash
Quoted(s, q) ==
    LET body == SubSeq(q, 2, Len(q) - 1)
        plain == {i \in 1..Len(body) :
                     body[i] # "\\" \/ (i > 1 /\ body[i - 1] = "\\" /\ (i = 2 \/ body[i - 2] # "\\"))}
    IN  /\ Len(q) >= 2 /\ q[1] = "\"" /\ q[Len(q)] = "\""
        /\ Cardinality(plain) = Len(s)
        /\ \A i \in plain : s[Cardinality({k \in plain : k <= i})] = body[i]

\* C9: when writeMetrics succeeds the lines written are five for each
\* downstream record, in the order of the records and of the README, then
\* three for each upstream record, each with the channel id of its record
\* as label, and no other line
C9_LinesInOrder ==
    \A r \in Reqs :
        res[r] = "ok" =>
            LET D == downstream[r].data
                U == upstream[r].data
                nd == 5 * Len(D)
            IN  /\ Len(out[r]) = nd + 3 * Len(U)
                /\ \A k \in 1..nd :
                      /\ out[r][k].name = DownNames[((k - 1) % 5) + 1]
                      /\ Quoted(D[((k - 1) \div 5) + 1].ChannelID, out[r][k].channel_id)
                /\ \A k \in 1..(3 * Len(U)) :
                      /\ out[r][nd + k].name = UpNames[((k - 1) % 3) + 1]
                      /\ Quoted(U[((k - 1) \div 3) + 1].ChannelID, out[r][nd + k].channel_id)

C9_Witness ==
    \E r \in Reqs :
        /\ res[r] = "ok"
        /\ Len(downstream[r].data) = 2 /\ Len(upstream[r].data) >= 1
        /\ downstream[r].data[1].ChannelID # downstream[r].data[2].ChannelID
        /\ Len(out[r]) = 10 + 3 * Len(upstream[r].data)

\* the element three parents above the first heading of each table
ThreeUpOf ==
    Tabulated([p \in Pages |->
        [down |-> IF p \in NoDownHeading THEN Nil ELSE ThreeUp(Heading(TreeOf[p], sDownstream)),
         up   |-> IF p \in NoUpHeading THEN Nil ELSE ThreeUp(Heading(TreeOf[p], sUpstream))]])

\* the qualifying children of element e, and the qualifying nodes among e
\* and its following siblings, each in document order
ChildRows(t, e) ==
    InOrder({q \in PathsOf(t) : IsChildOf(q, e) /\ Qualifies(NodeAt(t, q))})

SiblingRows(t, e) ==
    InOrder({q \in PathsOf(t) : IsSiblingFrom(q, e) /\ Qualifies(NodeAt(t, q))})

ChildRowsOf ==
    Tabulated([p \in Pages |->
        [down |-> ChildRows(TreeOf[p], ThreeUpOf[p].down),
         up   |-> ChildRows(TreeOf[p], ThreeUpOf[p].up)]])

SiblingRowsOf ==
    Tabulated([p \in Pages |->
        [down |-> SiblingRows(TreeOf[p], ThreeUpOf[p].down),
         up   |-> SiblingRows(TreeOf[p], ThreeUpOf[p].up)]])

\* parseDownstream (parseUpstream) found its heading and returned from
\* scrapeTable
ScannedDown(r) ==
    ParsedDown(r) /\ page[r] \notin NoDownHeading /\ downstream[r].kind \in {"ok", "format"}

ScannedUp(r) ==
    ParsedUp(r) /\ page[r] \notin NoUpHeading /\ upstream[r].kind \in {"ok", "format"}

\* C10 as stated: the rows extracted are the qualifying children, in
\* document order, of the element three parents above the heading text
C10_RowsAreChildren ==
    \A r \in Reqs :
        /\ ScannedDown(r) => scraped[r].down = ChildRowsOf[page[r]].down
        /\ ScannedUp(r) => scraped[r].up = ChildRowsOf[page[r]].up

\* C10 amended: the rows extracted are the qualifying nodes, in document
\* order, among the element three parents above the heading text and its
\* following siblings; no child of that element is extracted
C10_RowsAreSiblings ==
    \A r \in Reqs :
        /\ ScannedDown(r) =>
              /\ scraped[r].down = SiblingRowsOf[page[r]].down
              /\ \A i \in 1..Len(scraped[r].down) :
                    ~IsChildOf(scraped[r].down[i], ThreeUpOf[page[r]].down)
        /\ ScannedUp(r) =>
              /\ scraped[r].up = SiblingRowsOf[page[r]].up
              /\ \A i \in 1..Len(scraped[r].up) :
                    ~IsChildOf(scraped[r].up[i], ThreeUpOf[page[r]].up)

\* on the device the element three parents above the heading text is the
\* row of the heading: two downstream rows and an upstream row beside it
\* are extracted
C10_Witness ==
    \E r \in Reqs :
        /\ ScannedDown(r) /\ ScannedUp(r)
        /\ Len(scraped[r].down) = 2 /\ Len(scraped[r].up) >= 1
        /\ \A i \in 1..2 : IsSiblingFrom(scraped[r].down[i], ThreeUpOf[page[r]].down)

\* an upstream data row that parseUpstream cannot convert: a cell among 4
\* to 6 is missing or is not a number before its first space
UpRowFails(n) ==
    /\ CellsAreTexts(n)
    /\ \/ Len(n.kids) < 7
       \/ ~IsIntText(BeforeSpace(CellText(n, 4)))
       \/ ~IsIntText(BeforeSpace(CellText(n, 5)))
       \/ ~IsDecText(BeforeSpace(CellText(n, 6)))

\* the pages whose upstream table is the device's and has such a row
UpFailing ==
    {p \in Pages :
        LET t == TreeOf[p]
        IN  /\ p \notin NoUpHeading
            /\ NodeAt(t, ThreeUp(Heading(t, sUpstream))).Data = <<"t", "r">>
            /\ \E q \in TableRows(t, Heading(t, sUpstream)) :
                  Qualifies(NodeAt(t, q)) /\ UpRowFails(NodeAt(t, q))}

\* o is the downstream block of records D: five lines for each, in order
DownBlock(o, D) ==
    /\ Len(o) = 5 * Len(D)
    /\ \A k \in 1..Len(o) :
          /\ o[k].name = DownNames[((k - 1) % 5) + 1]
          /\ Quoted(D[((k - 1) \div 5) + 1].ChannelID, o[k].channel_id)

\* o is the upstream block of records U: three lines for each, in order
UpBlock(o, U) ==
    /\ Len(o) = 3 * Len(U)
    /\ \A k \in 1..Len(o) :
          /\ o[k].name = UpNames[((k - 1) % 3) + 1]
          /\ Quoted(U[((k - 1) \div 3) + 1].ChannelID, o[k].channel_id)

\* C11: in every run of writeMetrics the output is empty, the whole
\* downstream block, or the downstream block and the whole upstream block:
\* empty when the fetch fails, the page shows Login or the downstream parse
\* does not succeed; the downstream block alone when the upstream parse does
\* not succeed, as on every page with an upstream row that does not convert
C11_OutputAtTableBoundary ==
    \A r \in Reqs :
        LET D == downstream[r].data
            n == 5 * Len(D)
        IN  /\ (pc[r] \in {"idle", "lock", "fetched"} \/ pc[r] \in InFetch) => out[r] = <<>>
            /\ (pc[r] = "done" /\ res[r] \in {"transport", "login"}) =>
                   (out[r] = <<>> /\ ~ParsedDown(r))
            /\ (ParsedDown(r) /\ downstream[r].kind # "ok") =>
                   (out[r] = <<>> /\ ~ParsedUp(r))
            /\ (ParsedDown(r) /\ downstream[r].kind = "ok" /\ ~ParsedUp(r)) =>
                   DownBlock(out[r], D)
            /\ (ParsedUp(r) /\ upstream[r].kind # "ok") => DownBlock(out[r], D)
            /\ (ParsedUp(r) /\ page[r] \in UpFailing) =>
                   (DownBlock(out[r], D) /\ res[r] # "ok")
            /\ (ParsedUp(r) /\ upstream[r].kind = "ok") =>
                   /\ Len(out[r]) >= n
                   /\ DownBlock(SubSeq(out[r], 1, n), D)
                   /\ UpBlock(SubSeq(out[r], n + 1, Len(out[r])), upstream[r].data)

\* the second upstream row does not convert after a good one: the five
\* downstream lines are written and no upstream line
C11_Witness ==
    \E r \in Reqs :
        /\ pc[r] = "done" /\ ParsedUp(r) /\ page[r] \in UpFailing
        /\ upstream[r].kind = "format"
        /\ Len(SiblingRowsOf[page[r]].up) = 2
        /\ ~UpRowFails(NodeAt(TreeOf[page[r]], SiblingRowsOf[page[r]].up[1]))
        /\ Len(downstream[r].data) = 1 /\ Len(out[r]) = 5

\* the mutex is held by a request inside fetchPage and by no other
C12_Inv == \A r \in Reqs : mu = r <=> pc[r] \in InFetch

\* C12: every return of fetchPage, with a page or with an error, leaves the
\* mutex unlocked; and when every device request returns, every request
\* waiting for the lock gets it, leaves fetchPage and completes, whatever
\* the requests before it did
C12_MutexReleased ==
    /\ [](C12_Inv)
    /\ \A r \in Reqs : (pc[r] = "lock") ~> (pc[r] \in InFetch)
    /\ \A r \in Reqs : (pc[r] \in InFetch) ~> (mu # r /\ Returned(r))
    /\ \A r \in Reqs : (pc[r] = "lock") ~> (pc[r] = "done")

\* a request whose handshake failed has returned and a later one is inside
\* fetchPage with the lock
C12_Witness ==
    \E r1, r2 \in Reqs :
        /\ r1 # r2
        /\ pc[r1] = "done" /\ res[r1] = "transport" /\ log[r1] = <<"root">>
        /\ pc[r2] \in InFetch /\ mu = r2

====
